---- MODULE Spec2Model ----
(***************************************************************************)
(* State-machine model of avPublisherComponent/avPublisher.c: the sensor   *)
(* registry (Items), the sampling timer handler (SampleTimerHandler) with  *)
(* its sampling pass, rate limit, stale-item sweep and push, and the       *)
(* session-state handler that starts and stops the sampling timer.         *)
(*                                                                         *)
(* Time is in milliseconds, as returned by GetCurrentTimestamp.            *)
(* double values are fixed-point integers in thousandths (Scale), so that  *)
(* the threshold comparisons are computed, not assumed.  Every sensor      *)
(* value is a tuple of its fields (a scalar is a 1-tuple).                 *)
(***************************************************************************)
EXTENDS Integers, Sequences, FiniteSets, TLC

\* ------------------------------------------------------------------------
\* Bounds of the exploration (not program constants)
\* ------------------------------------------------------------------------

\* Number of timer expiries explored in one run; the run ends with the last.
MaxTicks == 3

\* Number of expiries of one run in which a sensor read, a record call or
\* the push fails.
MaxFaults == 1

\* ------------------------------------------------------------------------
\* Program constants
\* ------------------------------------------------------------------------

DelayBetweenReadings == 1

MaxIntervalBetweenPublish == 120

MinIntervalBetweenPublish == 10

TimeToStale == 60

\* Fixed-point scale of the model's doubles: 1.0 is Scale.
Scale == 1000

\* Clock reading (ms since the epoch) when the component starts: any value
\* beyond MaxIntervalBetweenPublish * 1000 behaves alike.
EpochMs == 1000000

\* Advance of the wall clock between two expiries when the clock is stepped
\* back in between (gettimeofday is not monotonic): less than 10 ms.
SlewMs == 5

\* A gap between two expiries longer than TimeToStale seconds (the timer is
\* stopped while the session is down).
OutageMs == 61000

\* ------------------------------------------------------------------------
\* The registry: struct Item Items[]
\* ------------------------------------------------------------------------

Light == 1

Pressure == 2

Temperature == 3

Accelerometer == 4

Gyro == 5

Gps == 6

NumItems == 6

Items == 1..NumItems

\* The light-level entry sets .record and .copyValue only: its .read and
\* .thresholdCheck members are null pointers.
HasRead(i) == i # Light

HasThresholdCheck(i) == i # Light

\* Number of fields of the value type of each entry.
NumFields(i) ==
  CASE i = Light -> 1
    [] i = Pressure -> 1
    [] i = Temperature -> 1
    [] i = Accelerometer -> 3
    [] i = Gyro -> 3
    [] i = Gps -> 5

\* static storage SensorData is zero-initialised
ZeroValue(i) == [k \in 1..NumFields(i) |-> 0]

Abs(x) == IF x < 0 THEN -x ELSE x

SumSq(v1, v2) ==
  (v1[1] - v2[1]) * (v1[1] - v2[1]) + (v1[2] - v2[2]) * (v1[2] - v2[2])
    + (v1[3] - v2[3]) * (v1[3] - v2[3])

\* Mutant: the light level threshold includes a difference of 200
LightSensorThreshold_AtLeast(v1, v2) == Abs(v1[1] - v2[1]) >= 200

\* abs(*v1 - *v2) > 200 on int32_t
LightSensorThreshold(v1, v2) == Abs(v1[1] - v2[1]) > 200

\* fabs(*v1 - *v2) > 1.0
PressureSensorThreshold(v1, v2) == Abs(v1[1] - v2[1]) > 1 * Scale

\* Mutant: the threshold is 0.2 degrees
TemperatureSensorThreshold_Tenth(v1, v2) == Abs(v1[1] - v2[1]) * 10 > 2 * Scale

\* fabs(*v1 - *v2) > 2.0
TemperatureSensorThreshold(v1, v2) == Abs(v1[1] - v2[1]) > 2 * Scale

\* sqrt(dx^2 + dy^2 + dz^2) > 1.0, compared on the squares
AccelerometerThreshold(v1, v2) == SumSq(v1, v2) > Scale * Scale

\* sqrt(dx^2 + dy^2 + dz^2) > M_PI / 2.0: (pi/2)^2 = 2.4674011...,
\* so on integer squares of thousandths the test is  > 2467401
GyroThreshold(v1, v2) == SumSq(v1, v2) > 2467401

\* Mutant: the latitude difference is taken with its sign
GpsThreshold_Signed(v1, v2) == (v2[1] - v1[1]) + Abs(v2[2] - v1[2]) > 10

\* fabs(deltaLat) + fabs(deltaLon) > 0.01
GpsThreshold(v1, v2) == Abs(v2[1] - v1[1]) + Abs(v2[2] - v1[2]) > 10

\* it->thresholdCheck of the entries that have one
ThresholdCheck(i, v1, v2) ==
  CASE i = Pressure -> PressureSensorThreshold(v1, v2)
    [] i = Temperature -> TemperatureSensorThreshold(v1, v2)
    [] i = Accelerometer -> AccelerometerThreshold(v1, v2)
    [] i = Gyro -> GyroThreshold(v1, v2)
    [] i = Gps -> GpsThreshold(v1, v2)
    [] OTHER -> FALSE

\* The threshold function written for each sensor, called with the arguments
\* (v1, v2).  (Items wires all of them but LightSensorThreshold.)
ThresholdFunction(i, v1, v2) ==
  CASE i = Light -> LightSensorThreshold(v1, v2)
    [] i = Pressure -> PressureSensorThreshold(v1, v2)
    [] i = Temperature -> TemperatureSensorThreshold(v1, v2)
    [] i = Accelerometer -> AccelerometerThreshold(v1, v2)
    [] i = Gyro -> GyroThreshold(v1, v2)
    [] i = Gps -> GpsThreshold(v1, v2)

\* The paths each record function writes, in the order it writes them.
Paths(i) ==
  CASE i = Light -> <<"MangOH.Sensors.Light.Level">>
    [] i = Pressure -> <<"MangOH.Sensors.Pressure.Pressure">>
    [] i = Temperature -> <<"MangOH.Sensors.Pressure.Temperature">>
    [] i = Accelerometer -> <<"MangOH.Sensors.Accelerometer.Acceleration.X",
                              "MangOH.Sensors.Accelerometer.Acceleration.Y",
                              "MangOH.Sensors.Accelerometer.Acceleration.Z">>
    [] i = Gyro -> <<"MangOH.Sensors.Accelerometer.Gyro.X",
                     "MangOH.Sensors.Accelerometer.Gyro.Y",
                     "MangOH.Sensors.Accelerometer.Gyro.Z">>
    [] i = Gps -> <<"lwm2m.6.0.0", "lwm2m.6.0.1", "lwm2m.6.0.3", "lwm2m.6.0.2",
                    "lwm2m.6.0.MangOH.Sensors.Gps.VerticalAccuracy">>

\* Mutant: the record function goes on to the fields after the rejected one
ItemRecord_GoesOn(i, rec, timestamp, value, accepted) ==
  LET n == IF accepted < NumFields(i) THEN accepted ELSE NumFields(i)
      all == [k \in 1..NumFields(i) |->
                [path |-> Paths(i)[k], value |-> value[k], ts |-> timestamp]]
  IN  [rec |-> rec \o SubSeq(all, 1, n) \o SubSeq(all, n + 2, NumFields(i)),
       ok |-> accepted >= NumFields(i)]

\* it->record(RecordRef, timestamp, value): the fields are appended in order
\* until the sink rejects one; `accepted` is the number of fields the sink
\* accepts (NumFields(i) or more: every field is accepted and the result is
\* LE_OK).  The result is the record after the call and the success flag.
ItemRecord(i, rec, timestamp, value, accepted) ==
  LET n == IF accepted < NumFields(i) THEN accepted ELSE NumFields(i)
  IN  [rec |-> rec \o [k \in 1..n |->
                         [path |-> Paths(i)[k], value |-> value[k], ts |-> timestamp]],
       ok |-> accepted >= NumFields(i)]

\* ------------------------------------------------------------------------
\* State
\* ------------------------------------------------------------------------

VARIABLES
  now,                \* wall clock (ms) read by the latest expiry; the boot clock before it
  lastTimeRead,       \* Items[i].lastTimeRead
  lastTimeRecorded,   \* Items[i].lastTimeRecorded
  lastValueRead,      \* *Items[i].lastValueRead   (SensorData.read)
  lastValueRecorded,  \* *Items[i].lastValueRecorded (SensorData.recorded)
  LastTimePublished,
  DeferredPublish,
  RecordRef,          \* the entries recorded into the time-series record
  timerRunning,       \* SampleTimer is running
  alive,              \* the process has not been killed
  publish,            \* SampleTimerHandler's local `publish` when it left the sampling loop
  calls,              \* the calls the latest SampleTimerHandler made, in order
  made,               \* the same calls as a set of <<op, phase, item, ok>>
  ticks,              \* number of expiries so far
  unsteady,           \* the entry whose sensor and record calls vary in this run
  entry,              \* the publish and entry state the latest SampleTimerHandler started from
  faults,             \* number of expiries in which a call failed
  failed,             \* the kinds of call that have failed so far
  startup,            \* "done", or the call of COMPONENT_INIT that failed
  session,            \* the latest started/stopped session event ("none" before the first)
  pushesInFlight,     \* accepted pushes whose status callback is still to come
  permuted            \* what the latest handler leaves with Items in each other order

vars == <<now, lastTimeRead, lastTimeRecorded, lastValueRead, lastValueRecorded,
          LastTimePublished, DeferredPublish, RecordRef, timerRunning, alive,
          publish, calls, made, entry, ticks, unsteady, faults, failed,
          startup, session, pushesInFlight, permuted>>

\* ------------------------------------------------------------------------
\* The environment of one expiry
\* ------------------------------------------------------------------------

\* Two readings per sensor: Lo is within the threshold of the zero value,
\* Hi is beyond the threshold of both.
LoValue(i) ==
  CASE i = Light -> <<100>>
    [] i = Pressure -> <<500>>
    [] i = Temperature -> <<1000>>
    [] i = Accelerometer -> <<0, 0, 500>>
    [] i = Gyro -> <<0, 0, 1000>>
    [] i = Gps -> <<5, 0, 3000, 100000, 4000>>

HiValue(i) ==
  CASE i = Light -> <<400>>
    [] i = Pressure -> <<2000>>
    [] i = Temperature -> <<4000>>
    [] i = Accelerometer -> <<0, 0, 2000>>
    [] i = Gyro -> <<0, 0, 3000>>
    [] i = Gps -> <<20, 0, 3000, 100000, 4000>>

\* Largest light level the threshold functions are applied to
MaxLight == 201

\* The values the threshold functions are applied to: every light level up
\* to MaxLight; for the other sensors values at, within and beyond the
\* threshold of each other
TestValues(i) ==
  CASE i = Light -> {<<x>> : x \in 0..MaxLight}
    [] i = Pressure -> {<<x>> : x \in {0, 500, 1000, 1001, 1500, 2500}}
    [] i = Temperature -> {<<x>> : x \in {0, 1000, 2000, 2001, 20000, 20500, 23500}}
    [] i = Accelerometer -> {<<x, y, z>> : x \in {0, 600}, y \in {0, 800}, z \in {0, 1, 1000}}
    [] i = Gyro -> {<<x, y, z>> : x \in {0, 1000}, y \in {0, 1200}, z \in {0, 150, 1571}}
    [] i = Gps -> {<<lat, lon, 3000, alt, 4000>> :
                     lat \in {0, 5, 10, 11}, lon \in {0, 5, 6}, alt \in {100000, 200000}}

\* Advance of the clock from one expiry to the next.
Deltas == {SlewMs, DelayBetweenReadings * 1000, OutageMs}

\* Number of fields the sink accepts in a record call it rejects: all but
\* the last (none of a scalar).
RejectedAfter(i) == NumFields(i) - 1

\* What the environment does during one expiry.  The sensor and the record
\* calls of the unsteady entry vary; every other sensor reads its Lo value
\* and every other record call is accepted.  The calls through the null
\* members of the light-level entry take all their outcomes in the runs
\* where that entry is the unsteady one; in the other runs they return
\* LE_OK with the Lo value, and false.
\*   hi     the unsteady sensor reads its Hi value
\*   fault  the call that fails: the unsteady entry's read, its record call
\*          in the sampling loop ("recS") or in the sweep ("recW"), the push
\*          (in one run the calls of one kind fail: the reads, the record
\*          calls or the pushes)
\*   null   the call through a null function pointer that kills the process
\*          (a null call that does not kill returns: read LE_OK or, as the
\*          fault, an error; thresholdCheck the value thr)
\*   thr    the value a null thresholdCheck of the unsteady entry returns
\*   script 0, or the number of the scripted reading the temperature sensor
\*          returns
\*   at     0, or the number of the field the sink rejects in the failing
\*          record call (0: the last field)
FaultOp(f) == IF f \in {"recS", "recW"} THEN "record" ELSE f

TickInputs ==
  { e \in [delta : Deltas, hi : BOOLEAN,
           fault : {"none", "read", "recS", "recW", "push"},
           null : IF unsteady = Light THEN {"none", "read", "thresholdCheck"} ELSE {"none"},
           thr : IF unsteady = Light THEN BOOLEAN ELSE {FALSE},
           script : {0}, at : {0}] :
      /\ (e.fault # "none") => (faults < MaxFaults /\ failed \subseteq {FaultOp(e.fault)})
      /\ (e.fault = "read") => ~e.hi
      /\ (e.null = "read") => (e.fault = "none" /\ ~e.hi /\ ~e.thr)
      /\ (e.null # "none") => (unsteady = Light /\ e.delta = DelayBetweenReadings * 1000)
      /\ (e.null = "thresholdCheck") => (lastTimeRecorded[Light] # 0 /\ e.fault # "read")
      /\ e.thr => (unsteady = Light /\ ~HasThresholdCheck(unsteady)) }

\* The environment of an expiry in a run where only the reads of the unsteady
\* entry fail, on any number of expiries
ReadFaultInputs ==
  { e \in [delta : Deltas, hi : BOOLEAN, fault : {"none", "read"},
           null : {"none"}, thr : {FALSE}, script : {0}, at : {0}] :
      (e.fault = "read") => (~e.hi /\ HasRead(unsteady)) }

\* The environment of an expiry in a run where only the push is rejected, on
\* any number of expiries
AsyncInputs ==
  [delta : Deltas, hi : BOOLEAN, fault : {"none", "push"},
   null : {"none"}, thr : {FALSE}, script : {0}, at : {0}]

\* The environment of an expiry in a run where the sink rejects any one field
\* of a record call of the unsteady entry, with the expiries far enough
\* apart for every one of them to sweep
RecordFaultInputs ==
  { e \in [delta : {OutageMs}, hi : BOOLEAN, fault : {"none", "recS", "recW"},
           null : {"none"}, thr : {FALSE}, script : {0},
           at : 0..NumFields(unsteady)] :
      /\ (e.fault = "none") <=> (e.at = 0)
      /\ (e.fault # "none") => faults < MaxFaults }

\* The environment of an expiry that is compared with the handler over a
\* permuted Items: that of TickInputs at the regular and the long advance of
\* the clock
PermutedInputs == {e \in TickInputs : e.delta # SlewMs}

\* Number of expiries the sink needs after a rejected push to be offered the
\* record again and accept it: the max-interval test holds again once more
\* than MaxIntervalBetweenPublish seconds have passed, two long advances
RetryTicks == 2

\* The environment of an expiry in a run where the expiries keep coming, the
\* reads and the record calls succeed, and the sink rejects a push only while
\* enough expiries are left for it to accept a later one
LiveInputs ==
  { e \in [delta : {OutageMs}, hi : BOOLEAN, fault : {"none", "push"},
           null : {"none"}, thr : {FALSE}, script : {0}, at : {0}] :
      (e.fault = "push") => (faults < MaxFaults /\ ticks + 1 + RetryTicks <= MaxTicks) }

\* The temperature readings of the scenario, in thousandths of a degree:
\* 20.0, 20.5, then 23.5 from the third expiry on
ScenarioReading(n) ==
  CASE n = 1 -> 20000
    [] n = 2 -> 20500
    [] OTHER -> 23500

\* Consecutive expiries of the running timer are DelayBetweenReadings apart,
\* or closer when the earlier handler ran late
ScenarioDeltas == {SlewMs, DelayBetweenReadings * 1000}

\* The environment of an expiry of the temperature scenario: the n-th expiry
\* reads the n-th scripted temperature, the unsteady entry reads either of its
\* values, every read and record call succeeds, and the push is accepted or
\* rejected
ScenarioInputs ==
  [delta : ScenarioDeltas, hi : BOOLEAN, fault : {"none", "push"},
   null : {"none"}, thr : {FALSE}, script : {ticks + 1}, at : {0}]

\* Outcome of it->read(it->lastValueRead): "ok", "fail" or "crash"
ReadResult(i, e) ==
  IF ~HasRead(i) /\ e.null = "read" THEN "crash"
  ELSE IF i = unsteady /\ e.fault = "read" THEN "fail"
  ELSE "ok"

\* The value a successful read stores in the lastValueRead slot
ReadValue(i, e) ==
  IF i = Temperature /\ e.script # 0 THEN <<ScenarioReading(e.script)>>
  ELSE IF i = unsteady /\ e.hi THEN HiValue(i) ELSE LoValue(i)

\* Outcome of it->thresholdCheck(it->lastValueRead, it->lastValueRecorded):
\* "true", "false" or "crash"
ThresholdResult(i, v1, v2, e) ==
  IF ~HasThresholdCheck(i)
    THEN (IF e.null = "thresholdCheck" THEN "crash"
          ELSE IF i = unsteady /\ e.thr THEN "true" ELSE "false")
    ELSE IF ThresholdCheck(i, v1, v2) THEN "true" ELSE "false"

\* Number of fields the sink accepts in a record call of entry i
Accepted(i, e, which) ==
  IF i = unsteady /\ e.fault = which
    THEN (IF e.at = 0 THEN RejectedAfter(i) ELSE e.at - 1)
    ELSE NumFields(i)

\* ------------------------------------------------------------------------
\* SampleTimerHandler
\* ------------------------------------------------------------------------

\* One call made by the handler: op is "read", "thresholdCheck", "record" or
\* "push"; phase is "sample", "sweep" or "push", or "killed" for the call
\* that killed the process; ts is the timestamp passed to a record call
\* (0 otherwise); ok is the success of the call (the value returned by a
\* thresholdCheck).
Call(op, phase, i, ts, ok) ==
  [op |-> op, phase |-> phase, item |-> i, ts |-> ts, ok |-> ok]

Log(h, c) == [h EXCEPT !.calls = Append(h.calls, c)]

\* Mutant: the never-recorded test is missing
RecordDecision_NoSentinel(h, i, e) ==
  ThresholdResult(i, h.lastValueRead[i], h.lastValueRecorded[i], e)

\* it->lastTimeRecorded == 0 || it->thresholdCheck(...), as "true"/"false"/"crash"
RecordDecision(h, i, e) ==
  IF h.lastTimeRecorded[i] = 0
    THEN "true"
    ELSE ThresholdResult(i, h.lastValueRead[i], h.lastValueRecorded[i], e)

\* The branch taken when the sampling loop's record call returned LE_OK
SamplerRecorded(h, i, t) ==
  [h EXCEPT !.lastValueRecorded[i] = h.lastValueRead[i], !.publish = TRUE]

\* Mutant: the result of the record call is ignored
RecordSample_Unchecked(h, i, t, e) ==
  LET r == ItemRecord(i, h.rec, t, h.lastValueRead[i], Accepted(i, e, "recS"))
      h1 == [Log(h, Call("record", "sample", i, t, r.ok)) EXCEPT !.rec = r.rec]
  IN  SamplerRecorded(h1, i, t)

\* Mutant: one entry at most is recorded by the sampling loop of an expiry
RecordSample_FirstOnly(h, i, t, e) ==
  IF h.publish THEN h
  ELSE LET r == ItemRecord(i, h.rec, t, h.lastValueRead[i], Accepted(i, e, "recS"))
           h1 == [Log(h, Call("record", "sample", i, t, r.ok)) EXCEPT !.rec = r.rec]
       IN  IF r.ok THEN SamplerRecorded(h1, i, t) ELSE h1

\* The record call of the sampling loop and what follows it
RecordSample(h, i, t, e) ==
  LET r == ItemRecord(i, h.rec, t, h.lastValueRead[i], Accepted(i, e, "recS"))
      h1 == [Log(h, Call("record", "sample", i, t, r.ok)) EXCEPT !.rec = r.rec]
  IN  IF r.ok THEN SamplerRecorded(h1, i, t) ELSE h1

\* Mutant: no publish is forced
ForcePublish_Never(h, i, t) == FALSE

\* Mutant: the age is measured from the last publish, not from the last
\* recording of the entry
ForcePublish_SincePublish(h, i, t) ==
  /\ (t - h.LastTimePublished) > (MaxIntervalBetweenPublish * 1000)
  /\ h.lastTimeRead[i] > h.LastTimePublished

\* (now - it->lastTimeRecorded) > (MaxIntervalBetweenPublish * 1000) &&
\* it->lastTimeRead > LastTimePublished
ForcePublish(h, i, t) ==
  /\ (t - h.lastTimeRecorded[i]) > (MaxIntervalBetweenPublish * 1000)
  /\ h.lastTimeRead[i] > h.LastTimePublished

\* Mutant: the max-interval test is made only after a successful read
ForceCheck_AfterReadOnly(h, i, t) ==
  IF h.alive /\ h.lastTimeRead[i] = t /\ ForcePublish(h, i, t)
    THEN [h EXCEPT !.publish = TRUE] ELSE h

\* The max-interval test at the end of the loop body, made after a failed
\* read as well
ForceCheck(h, i, t) ==
  IF h.alive /\ ForcePublish(h, i, t) THEN [h EXCEPT !.publish = TRUE] ELSE h

\* The process is killed in a call through a null pointer
Killed(h, op, i) ==
  [Log(h, Call(op, "killed", i, 0, FALSE)) EXCEPT !.alive = FALSE]

\* Mutant: a failed read is time-stamped like a successful one
AfterFailedRead_Stamped(h, i, t) == [h EXCEPT !.lastTimeRead[i] = t]

\* The else branch of the read: a warning is logged
AfterFailedRead(h, i, t) == h

\* Body of the sampling loop up to the max-interval test
SampleItem(h, i, t, e) ==
  LET rd == ReadResult(i, e)
  IN  IF rd = "crash" THEN Killed(h, "read", i)
      ELSE IF rd = "fail"
        THEN AfterFailedRead(Log(h, Call("read", "sample", i, 0, FALSE)), i, t)
      ELSE
        LET h1 == [Log(h, Call("read", "sample", i, 0, TRUE))
                     EXCEPT !.lastValueRead[i] = ReadValue(i, e),
                            !.lastTimeRead[i] = t]
            d == RecordDecision(h1, i, e)
            h2 == IF h1.lastTimeRecorded[i] = 0 THEN h1
                  ELSE Log(h1, Call("thresholdCheck", "sample", i, 0, d = "true"))
        IN  IF d = "crash" THEN Killed(h1, "thresholdCheck", i)
            ELSE IF d = "true" THEN RecordSample(h2, i, t, e)
            ELSE h2

RECURSIVE SamplePass(_, _, _, _)
SamplePass(h, i, t, e) ==
  IF i > NumItems \/ ~h.alive THEN h
  ELSE SamplePass(ForceCheck(SampleItem(h, i, t, e), i, t), i + 1, t, e)

\* (now - LastTimePublished) < MinIntervalBetweenPublish
TooSoon(h, t) == (t - h.LastTimePublished) < MinIntervalBetweenPublish

\* Mutant: the sweep uses the max-interval bound instead of TimeToStale
IsStale_MaxInterval(h, i, t) ==
  /\ (t - h.lastTimeRecorded[i]) > (MaxIntervalBetweenPublish * 1000)
  /\ h.lastTimeRead[i] > h.lastTimeRecorded[i]

\* (now - it->lastTimeRecorded) > (TimeToStale * 1000) &&
\* it->lastTimeRead > it->lastTimeRecorded
IsStale(h, i, t) ==
  /\ (t - h.lastTimeRecorded[i]) > (TimeToStale * 1000)
  /\ h.lastTimeRead[i] > h.lastTimeRecorded[i]

\* Mutant: the sweep copies the value but leaves lastTimeRecorded alone
SweepRecorded_NoTime(h, i, t) ==
  [h EXCEPT !.lastValueRecorded[i] = h.lastValueRead[i]]

\* Mutant: the sweep stamps the entry with the time of the expiry
SweepRecorded_Now(h, i, t) ==
  [h EXCEPT !.lastValueRecorded[i] = h.lastValueRead[i],
            !.lastTimeRecorded[i] = t]

\* The branch taken when the sweep's record call returned LE_OK
SweepRecorded(h, i, t) ==
  [h EXCEPT !.lastValueRecorded[i] = h.lastValueRead[i],
            !.lastTimeRecorded[i] = h.lastTimeRead[i]]

SweepItem(h, i, t, e) ==
  IF IsStale(h, i, t)
    THEN LET r == ItemRecord(i, h.rec, h.lastTimeRead[i], h.lastValueRead[i],
                             Accepted(i, e, "recW"))
             h1 == [Log(h, Call("record", "sweep", i, h.lastTimeRead[i], r.ok))
                      EXCEPT !.rec = r.rec]
         IN  IF r.ok THEN SweepRecorded(h1, i, t) ELSE h1
    ELSE h

RECURSIVE SweepPass(_, _, _, _)
SweepPass(h, i, t, e) ==
  IF i > NumItems THEN h
  ELSE SweepPass(SweepItem(h, i, t, e), i + 1, t, e)

\* Mutant: the publish state is updated whatever the push returned
PushRecord_Unchecked(h, t, e) ==
  [Log(h, Call("push", "push", 0, 0, e.fault # "push"))
     EXCEPT !.LastTimePublished = t, !.DeferredPublish = FALSE]

\* Mutant: an accepted push empties the record
PushRecord_Clears(h, t, e) ==
  LET ok == e.fault # "push"
      h1 == Log(h, Call("push", "push", 0, 0, ok))
  IN  IF ~ok THEN h1
      ELSE [h1 EXCEPT !.LastTimePublished = t, !.DeferredPublish = FALSE,
                      !.rec = <<>>]

\* le_avdata_PushRecord and the branch on its result
PushRecord(h, t, e) ==
  LET ok == e.fault # "push"
      h1 == Log(h, Call("push", "push", 0, 0, ok))
  IN  IF ~ok THEN h1
      ELSE [h1 EXCEPT !.LastTimePublished = t, !.DeferredPublish = FALSE]

\* Mutant: the record is pushed before the stale entries are swept
Schedule_PushFirst(h, t, e) ==
  IF h.publish \/ h.DeferredPublish
    THEN IF TooSoon(h, t)
           THEN [h EXCEPT !.DeferredPublish = TRUE]
           ELSE SweepPass(PushRecord(h, t, e), 1, t, e)
    ELSE h

\* Mutant: the scheduler runs whether or not a publish is wanted
Schedule_Always(h, t, e) ==
  IF TooSoon(h, t)
    THEN [h EXCEPT !.DeferredPublish = TRUE]
    ELSE PushRecord(SweepPass(h, 1, t, e), t, e)

\* Mutant: a deferred publish is forgotten unless publish is set again
Schedule_PublishOnly(h, t, e) ==
  IF h.publish
    THEN IF TooSoon(h, t)
           THEN [h EXCEPT !.DeferredPublish = TRUE]
           ELSE PushRecord(SweepPass(h, 1, t, e), t, e)
    ELSE h

\* if (publish || DeferredPublish) { ... }
Schedule(h, t, e) ==
  IF h.publish \/ h.DeferredPublish
    THEN IF TooSoon(h, t)
           THEN [h EXCEPT !.DeferredPublish = TRUE]
           ELSE PushRecord(SweepPass(h, 1, t, e), t, e)
    ELSE h

\* The calls as a set, without their order and timestamps
Outcomes(cs) == {<<cs[k].op, cs[k].phase, cs[k].item, cs[k].ok>> : k \in 1..Len(cs)}

\* The kinds of call of the handler that returned an error
FailedOps(cs) ==
  {c[1] : c \in {d \in Outcomes(cs) : d[1] # "thresholdCheck" /\ d[2] # "killed" /\ ~d[4]}}

\* The state the handler starts from
Entry ==
  [lastTimeRead |-> lastTimeRead, lastTimeRecorded |-> lastTimeRecorded,
   lastValueRead |-> lastValueRead, lastValueRecorded |-> lastValueRecorded,
   LastTimePublished |-> LastTimePublished, DeferredPublish |-> DeferredPublish,
   rec |-> RecordRef, publish |-> FALSE, calls |-> <<>>, alive |-> TRUE]

\* What the handler finds of the entries and the publish state
AtEntry ==
  [lastTimeRead |-> lastTimeRead, lastTimeRecorded |-> lastTimeRecorded,
   lastValueRead |-> lastValueRead, lastValueRecorded |-> lastValueRecorded,
   LastTimePublished |-> LastTimePublished, DeferredPublish |-> DeferredPublish,
   timerRunning |-> timerRunning, recLen |-> Len(RecordRef)]

\* The whole handler at time t in environment e; a killed process does not
\* reach the publish part.
Handler(t, e) ==
  LET h == SamplePass(Entry, 1, t, e)
  IN  IF h.alive THEN Schedule(h, t, e) ELSE h

\* The order of the entries in Items, and two other orders of the same
\* entries: reversed, and rotated by one
Registry == [k \in 1..NumItems |-> k]

Reversed == [k \in 1..NumItems |-> NumItems + 1 - k]

Rotated == [k \in 1..NumItems |-> (k % NumItems) + 1]

Orders == {Reversed, Rotated}

\* No other order has been tried: the function over no order
NoOrder == <<>>

\* The sampling loop over the entries in the order o, from position k
RECURSIVE SamplePassIn(_, _, _, _, _)
SamplePassIn(h, o, k, t, e) ==
  IF k > NumItems \/ ~h.alive THEN h
  ELSE SamplePassIn(ForceCheck(SampleItem(h, o[k], t, e), o[k], t), o, k + 1, t, e)

\* The sweep over the entries in the order o, from position k
RECURSIVE SweepPassIn(_, _, _, _, _)
SweepPassIn(h, o, k, t, e) ==
  IF k > NumItems THEN h
  ELSE SweepPassIn(SweepItem(h, o[k], t, e), o, k + 1, t, e)

\* if (publish || DeferredPublish) { ... } with the sweep in the order o
ScheduleIn(h, o, t, e) ==
  IF h.publish \/ h.DeferredPublish
    THEN IF TooSoon(h, t)
           THEN [h EXCEPT !.DeferredPublish = TRUE]
           ELSE PushRecord(SweepPassIn(h, o, 1, t, e), t, e)
    ELSE h

\* The whole handler with both loops in the order o
HandlerIn(o, t, e) ==
  LET h == SamplePassIn(Entry, o, 1, t, e)
  IN  IF h.alive THEN ScheduleIn(h, o, t, e) ELSE h

\* The entries of a record with the number of times each occurs
BagOf(rec) ==
  [x \in {rec[k] : k \in 1..Len(rec)} |->
     Cardinality({k \in 1..Len(rec) : rec[k] = x})]

\* The entries the latest handler appended to the record
Appended == SubSeq(RecordRef, entry.recLen + 1, Len(RecordRef))

\* What a run of the handler leaves; of the record, the entries it appended
Final(h) ==
  [lastTimeRead |-> h.lastTimeRead, lastTimeRecorded |-> h.lastTimeRecorded,
   lastValueRead |-> h.lastValueRead, lastValueRecorded |-> h.lastValueRecorded,
   LastTimePublished |-> h.LastTimePublished, DeferredPublish |-> h.DeferredPublish,
   publish |-> h.publish, alive |-> h.alive, made |-> Outcomes(h.calls),
   rec |-> SubSeq(h.rec, Len(RecordRef) + 1, Len(h.rec))]

\* ------------------------------------------------------------------------
\* COMPONENT_INIT
\* ------------------------------------------------------------------------

\* The calls of COMPONENT_INIT that return a result which can report a
\* failure: the three timer settings return an le_result_t and
\* le_avdata_RequestSession returns NULL on failure.  le_avdata_CreateRecord,
\* le_timer_Create and le_avdata_AddSessionStateHandler return a reference and
\* have no failure result (a failure inside them ends the client), and their
\* results are not tested.
StartupCalls ==
  {"le_timer_SetMsInterval", "le_timer_SetRepeat", "le_timer_SetHandler",
   "le_avdata_RequestSession"}

\* Mutant: the result of le_avdata_RequestSession is not tested
StartupFatal_TimerOnly(call) ==
  call \in {"le_timer_SetMsInterval", "le_timer_SetRepeat", "le_timer_SetHandler"}

\* The failure of the call ends the process: LE_ASSERT_OK on the three timer
\* settings, LE_FATAL_IF(AvSession == NULL, ...)
StartupFatal(call) ==
  call \in {"le_timer_SetMsInterval", "le_timer_SetRepeat", "le_timer_SetHandler",
            "le_avdata_RequestSession"}

\* ------------------------------------------------------------------------
\* AvSessionStateHandler and AvPushCallbackHandler
\* ------------------------------------------------------------------------

\* le_timer_Start / le_timer_Stop on a timer that is or is not running
TimerStart(running) == IF running THEN "LE_BUSY" ELSE "LE_OK"

TimerStop(running) == IF running THEN "LE_OK" ELSE "LE_FAULT"

\* Mutant: LE_ASSERT_OK on every result of le_timer_Start, LE_BUSY included
SessionOutcome_AssertStart(state, running) ==
  CASE state = "started" -> [running |-> TRUE, alive |-> TimerStart(running) = "LE_OK"]
    [] state = "stopped" -> [running |-> FALSE, alive |-> TRUE]
    [] OTHER -> [running |-> running, alive |-> TRUE]

\* The switch of AvSessionStateHandler: whether the timer runs and whether
\* the process lives after the event
SessionOutcome(state, running) ==
  CASE state = "started" ->
         [running |-> TRUE,
          alive |-> TimerStart(running) \in {"LE_BUSY", "LE_OK"}]
    [] state = "stopped" -> [running |-> FALSE, alive |-> TRUE]
    [] OTHER -> [running |-> running, alive |-> TRUE]

\* Mutant: the end of the session forgets the publish state
SessionKeeps_ResetOnStop(state, st) ==
  IF state = "stopped"
    THEN [LastTimePublished |-> 0, DeferredPublish |-> FALSE] ELSE st

\* What AvSessionStateHandler does to the publish state st: no case of its
\* switch assigns LastTimePublished or DeferredPublish
SessionKeeps(state, st) == st

\* Mutant: a failed push is scheduled again
PushCallback_Retry(status, st) ==
  IF status = "LE_AVDATA_PUSH_FAILED"
    THEN [st EXCEPT !.DeferredPublish = TRUE] ELSE st

\* The switch of AvPushCallbackHandler on the publish state st: it logs
PushCallback(status, st) == st

\* ------------------------------------------------------------------------
\* Actions
\* ------------------------------------------------------------------------

\* The state COMPONENT_INIT leaves: every static zero, the timer created and
\* not started, and the process ended if a tested call failed
Init ==
  /\ now = EpochMs
  /\ lastTimeRead = [i \in Items |-> 0]
  /\ lastTimeRecorded = [i \in Items |-> 0]
  /\ lastValueRead = [i \in Items |-> ZeroValue(i)]
  /\ lastValueRecorded = [i \in Items |-> ZeroValue(i)]
  /\ LastTimePublished = 0
  /\ DeferredPublish = FALSE
  /\ RecordRef = <<>>
  /\ timerRunning = FALSE
  /\ publish = FALSE
  /\ calls = <<>>
  /\ made = {}
  /\ entry = AtEntry
  /\ ticks = 0
  /\ unsteady \in Items
  /\ faults = 0
  /\ failed = {}
  /\ startup \in {"done"} \cup StartupCalls
  /\ alive = ~(startup # "done" /\ StartupFatal(startup))
  /\ session = "none"
  /\ pushesInFlight = 0
  /\ permuted = NoOrder

\* The state in which a threshold function is applied: the recorded and the
\* read value of one entry are any two values of its type
InitThresholds ==
  /\ now = EpochMs
  /\ lastTimeRead = [i \in Items |-> 0]
  /\ lastTimeRecorded = [i \in Items |-> 0]
  /\ unsteady \in Items
  /\ \E a \in TestValues(unsteady) :
       lastValueRecorded = [i \in Items |-> IF i = unsteady THEN a ELSE ZeroValue(i)]
  /\ \E b \in TestValues(unsteady) :
       lastValueRead = [i \in Items |-> IF i = unsteady THEN b ELSE ZeroValue(i)]
  /\ LastTimePublished = 0
  /\ DeferredPublish = FALSE
  /\ RecordRef = <<>>
  /\ timerRunning = FALSE
  /\ publish = FALSE
  /\ calls = <<>>
  /\ made = {}
  /\ entry = AtEntry
  /\ ticks = 0
  /\ faults = 0
  /\ failed = {}
  /\ startup = "done"
  /\ alive = TRUE
  /\ session = "none"
  /\ pushesInFlight = 0
  /\ permuted = NoOrder

\* The threshold function of the entry is called as the sampling loop calls
\* it: thresholdCheck(it->lastValueRead, it->lastValueRecorded)
ThresholdCall ==
  /\ calls = <<>>
  /\ calls' = <<Call("thresholdCheck", "sample", unsteady, 0,
                     ThresholdFunction(unsteady, lastValueRead[unsteady],
                                       lastValueRecorded[unsteady]))>>
  /\ made' = Outcomes(calls')
  /\ UNCHANGED <<now, lastTimeRead, lastTimeRecorded, lastValueRead,
                 lastValueRecorded, LastTimePublished, DeferredPublish, RecordRef,
                 timerRunning, alive, publish, entry, ticks, unsteady, faults,
                 failed, startup, session, pushesInFlight, permuted>>

\* The handler runs at time t in environment e and leaves h
Tick(t, e, h) ==
  /\ now' = t
  /\ lastTimeRead' = h.lastTimeRead
  /\ lastTimeRecorded' = h.lastTimeRecorded
  /\ lastValueRead' = h.lastValueRead
  /\ lastValueRecorded' = h.lastValueRecorded
  /\ LastTimePublished' = h.LastTimePublished
  /\ DeferredPublish' = h.DeferredPublish
  /\ RecordRef' = h.rec
  /\ alive' = h.alive
  /\ publish' = h.publish
  /\ calls' = h.calls
  /\ made' = Outcomes(h.calls)
  /\ entry' = AtEntry
  /\ pushesInFlight' =
       IF <<"push", "push", 0, TRUE>> \in Outcomes(h.calls)
         THEN pushesInFlight + 1 ELSE pushesInFlight
  /\ \E f \in {FailedOps(h.calls)} :
       /\ faults' = IF f # {} THEN faults + 1 ELSE faults
       /\ failed' = failed \cup f
  /\ ticks' = ticks + 1
  /\ UNCHANGED <<timerRunning, unsteady, startup, session>>

\* The sampling timer expires and SampleTimerHandler runs in an environment
\* drawn from `inputs`
Expiry(inputs) ==
  /\ alive
  /\ timerRunning
  /\ ticks < MaxTicks
  /\ \E e \in inputs :
       \E h \in {Handler(now + e.delta, e)} : Tick(now + e.delta, e, h)
  /\ UNCHANGED permuted

\* The sampling timer expires; next to what the handler does, what it would
\* leave in the same environment with the entries of Items in another order
\* is computed
ExpiryPermuted(inputs) ==
  /\ alive
  /\ timerRunning
  /\ ticks < MaxTicks
  /\ \E e \in inputs :
       /\ \E h \in {Handler(now + e.delta, e)} : Tick(now + e.delta, e, h)
       /\ permuted' = [o \in Orders |-> Final(HandlerIn(o, now + e.delta, e))]

\* The sampling timer expires and the handler is compared with the handler
\* over a permuted Items
SampleTimerHandlerPermuted == ExpiryPermuted(PermutedInputs)

\* The sampling timer expires
SampleTimerHandler == Expiry(TickInputs)

\* The sampling timer expires in a run where the sensor of the unsteady
\* entry may fail on every expiry
SampleTimerHandlerReadFaults == Expiry(ReadFaultInputs)

\* The sampling timer expires in a run where the sink rejects a field
SampleTimerHandlerRecordFaults == Expiry(RecordFaultInputs)

\* The sampling timer expires in a run where the sink accepts in the end
SampleTimerHandlerLive == Expiry(LiveInputs)

\* The sampling timer expires in the temperature scenario
SampleTimerHandlerScenario == Expiry(ScenarioInputs)

\* The session state changes
AvSessionStateHandler ==
  /\ alive
  /\ ticks < MaxTicks
  /\ \E state \in {"started", "stopped", "other"} :
       \E o \in {SessionOutcome(state, timerRunning)} :
         /\ timerRunning' = o.running
         /\ alive' = o.alive
         /\ session' = IF state \in {"started", "stopped"} THEN state ELSE session
         /\ \E st \in {SessionKeeps(state, [LastTimePublished |-> LastTimePublished,
                                             DeferredPublish |-> DeferredPublish])} :
              /\ LastTimePublished' = st.LastTimePublished
              /\ DeferredPublish' = st.DeferredPublish
  /\ UNCHANGED <<now, lastTimeRead, lastTimeRecorded, lastValueRead,
                 lastValueRecorded, RecordRef,
                 publish, calls, made, entry, ticks, unsteady, faults, failed,
                 startup, pushesInFlight, permuted>>

\* The session starts
SessionStarted == AvSessionStateHandler /\ timerRunning'

\* The status of an accepted push arrives
AvPushCallbackHandler ==
  /\ alive
  /\ pushesInFlight > 0
  /\ \E status \in {"LE_AVDATA_PUSH_SUCCESS", "LE_AVDATA_PUSH_FAILED", "other"} :
       \E st \in {PushCallback(status, [LastTimePublished |-> LastTimePublished,
                                        DeferredPublish |-> DeferredPublish])} :
         /\ LastTimePublished' = st.LastTimePublished
         /\ DeferredPublish' = st.DeferredPublish
  /\ pushesInFlight' = pushesInFlight - 1
  /\ UNCHANGED <<now, lastTimeRead, lastTimeRecorded, lastValueRead,
                 lastValueRecorded, RecordRef, timerRunning, alive, publish, calls,
                 made, entry, ticks, unsteady, faults, failed, startup, session,
                 permuted>>

\* The sampling timer expires in a run where only the push may be rejected,
\* on any number of expiries
SampleTimerHandlerAsync == Expiry(AsyncInputs)

Next == SampleTimerHandler \/ AvSessionStateHandler

Spec == Init /\ [][Next]_vars

\* The runs in which reads fail without a budget, and nothing else fails
NextReadFaults == SampleTimerHandlerReadFaults \/ AvSessionStateHandler

SpecReadFaults == Init /\ [][NextReadFaults]_vars

\* The runs in which the status callbacks of the accepted pushes are
\* delivered, at any time after the push (Spec leaves them undelivered)
NextAsync ==
  SampleTimerHandlerAsync \/ AvSessionStateHandler \/ AvPushCallbackHandler

SpecAsync == Init /\ [][NextAsync]_vars

\* The runs in which a record call fails at any of its fields
NextRecordFaults == SampleTimerHandlerRecordFaults \/ AvSessionStateHandler

SpecRecordFaults == Init /\ [][NextRecordFaults]_vars

\* The threshold functions applied to bounded sets of values
NextThresholds == ThresholdCall

SpecThresholds == InitThresholds /\ [][NextThresholds]_vars

\* The runs in which every expiry is compared with the handler over a
\* permuted Items
NextPermuted == SampleTimerHandlerPermuted \/ AvSessionStateHandler

SpecPermuted == Init /\ [][NextPermuted]_vars

\* The runs in which the expiries keep coming: the timer repeats for ever
\* (le_timer_SetRepeat(SampleTimer, 0)), and a session that stopped starts
\* again
NextLive == SampleTimerHandlerLive \/ AvSessionStateHandler

\* An expiry of the running timer, told by the count of expiries: of the
\* steps of NextLive only SampleTimerHandlerLive changes ticks, and it can be
\* taken whenever the timer runs in a live process
TimerExpires ==
  /\ alive
  /\ timerRunning
  /\ ticks < MaxTicks
  /\ ticks' = ticks + 1

SpecLive ==
  /\ Init
  /\ [][NextLive]_vars
  /\ SF_ticks(TimerExpires)
  /\ WF_vars(SessionStarted)

\* The runs of the temperature scenario
NextScenario == SampleTimerHandlerScenario \/ AvSessionStateHandler

SpecScenario == Init /\ [][NextScenario]_vars

\* ------------------------------------------------------------------------
\* Vocabulary of the properties
\* ------------------------------------------------------------------------

\* The properties are stated on the state an expiry leaves: `entry` is the
\* state the handler started from, `calls` the calls it made, and the
\* variables are the state it left.  They hold trivially before the first
\* expiry, and a session event changes none of the variables they read.

\* The handler made a call with these attributes
Made(op, phase, i, ok) == <<op, phase, i, ok>> \in made

ReadOk(i) == Made("read", "sample", i, TRUE)

ReadFailed(i) == Made("read", "sample", i, FALSE)

\* record was called for entry i in the sampling loop / in the sweep
SampleRecordCalled(i) ==
  Made("record", "sample", i, TRUE) \/ Made("record", "sample", i, FALSE)

SweepRecordCalled(i) ==
  Made("record", "sweep", i, TRUE) \/ Made("record", "sweep", i, FALSE)

\* the record was pushed, and the push was accepted / rejected
PushAccepted == Made("push", "push", 0, TRUE)

PushRejected == Made("push", "push", 0, FALSE)

Pushed == PushAccepted \/ PushRejected

\* ------------------------------------------------------------------------
\* C1
\* ------------------------------------------------------------------------

\* C1 (as claimed): whenever an expiry pushes the record at time now, at
\* least MinIntervalBetweenPublish seconds (10 s) have passed since
\* LastTimePublished.  The handler compares the millisecond difference with
\* the bare number 10, so a push 1 s after the previous one goes through.
C1_RateLimitSeconds ==
  Pushed
    => (now - entry.LastTimePublished) >= MinIntervalBetweenPublish * 1000

\* ------------------------------------------------------------------------
\* C2
\* ------------------------------------------------------------------------

\* C2 (as claimed): an expiry that wants to publish less than 10 s after the
\* last accepted push does not push and sets DeferredPublish, and a deferred
\* publish is pushed on the first expiry at or after LastTimePublished + 10 s.
C2_DeferredScenario ==
  (ticks >= 1 /\ alive)
    => /\ (publish
             /\ (now - entry.LastTimePublished) < MinIntervalBetweenPublish * 1000)
            => (~Pushed /\ DeferredPublish)
       /\ (entry.DeferredPublish
             /\ (now - entry.LastTimePublished) >= MinIntervalBetweenPublish * 1000)
            => Pushed

\* ------------------------------------------------------------------------
\* C3
\* ------------------------------------------------------------------------

\* C3: on an expiry where the read of an entry that has never been recorded
\* (lastTimeRecorded = 0) succeeds, record is called for it in the sampling
\* loop with the current time, whatever the value read.
C3_FirstReadRecorded ==
  \A i \in Items :
    (entry.lastTimeRecorded[i] = 0 /\ ReadOk(i))
      => \E k \in 1..Len(calls) :
           /\ calls[k].op = "record" /\ calls[k].phase = "sample"
           /\ calls[k].item = i /\ calls[k].ts = now

\* A first reading within the threshold of the zero-initialised recorded
\* value has been recorded by the sampling loop.
C3_Witness ==
  /\ ticks = 1
  /\ alive
  /\ \E i \in Items :
       /\ HasThresholdCheck(i)
       /\ ReadOk(i)
       /\ ~ThresholdCheck(i, ZeroValue(i), lastValueRead[i])
       /\ Made("record", "sample", i, TRUE)

\* ------------------------------------------------------------------------
\* C4
\* ------------------------------------------------------------------------

\* The max-interval condition of entry i as the expiry evaluates it (the
\* sampling loop leaves lastTimeRecorded as it was at entry)
ForceHolds(i) ==
  /\ (now - entry.lastTimeRecorded[i]) > MaxIntervalBetweenPublish * 1000
  /\ lastTimeRead[i] > entry.LastTimePublished

\* The stale condition of entry i as the sweep of the expiry evaluates it
StaleHolds(i) ==
  /\ (now - entry.lastTimeRecorded[i]) > TimeToStale * 1000
  /\ lastTimeRead[i] > entry.lastTimeRecorded[i]

\* exceedsThreshold(lastRecorded, lastRead) of entry i on the expiry; for an
\* entry without a thresholdCheck, what the call returned
ThresholdHolds(i) ==
  IF HasThresholdCheck(i)
    THEN ThresholdCheck(i, entry.lastValueRecorded[i], lastValueRead[i])
    ELSE Made("thresholdCheck", "sample", i, TRUE)

\* C4 (as claimed): an entry that has been recorded is recorded again on an
\* expiry if and only if its threshold test or its max-interval condition
\* holds on that expiry.
C4_RecordedAgainIff ==
  (ticks >= 1 /\ alive)
    => \A i \in Items :
         (entry.lastTimeRecorded[i] # 0 /\ HasThresholdCheck(i))
           => ((SampleRecordCalled(i) \/ SweepRecordCalled(i))
                 <=> (ThresholdHolds(i) \/ ForceHolds(i)))

\* C4 (amended): for an entry with lastTimeRecorded # 0, the sampling loop
\* calls record exactly when the read succeeded and the threshold test is
\* true, and the sweep calls record exactly when the expiry pushes and the
\* entry is stale with a fresher reading; the max-interval condition records
\* nothing by itself.
C4_RecordedAgain ==
  \A i \in Items :
    (ticks >= 1 /\ entry.lastTimeRecorded[i] # 0)
      => /\ SampleRecordCalled(i) <=> (ReadOk(i) /\ ThresholdHolds(i))
         /\ SweepRecordCalled(i) <=> (Pushed /\ StaleHolds(i))

\* The sweep has recorded an entry whose threshold was not crossed and whose
\* max-interval condition did not hold, on an expiry after it was recorded.
C4_Witness ==
  /\ alive
  /\ \E i \in Items :
       /\ entry.lastTimeRecorded[i] # 0
       /\ SweepRecordCalled(i)
       /\ ~SampleRecordCalled(i)
       /\ ReadOk(i)
       /\ ~ForceHolds(i)

\* ------------------------------------------------------------------------
\* C5
\* ------------------------------------------------------------------------

\* C5: on an expiry that runs to its end, if some entry has
\* (now - lastTimeRecorded) > MaxIntervalBetweenPublish seconds and a read
\* later than LastTimePublished, the local publish flag is set.
C5_MaxIntervalForcesPublish ==
  (ticks >= 1 /\ alive)
    => ((\E i \in Items : ForceHolds(i)) => publish)

\* publish was set, and the record pushed, by the max-interval condition
\* alone: the sampling loop recorded nothing, after a quiet time of more than
\* MaxIntervalBetweenPublish seconds since the entries were recorded.
C5_Witness ==
  /\ alive
  /\ publish
  /\ \A i \in Items : entry.lastTimeRecorded[i] # 0 /\ ~SampleRecordCalled(i)
  /\ \E i \in Items : ForceHolds(i)
  /\ Pushed

\* ------------------------------------------------------------------------
\* C6
\* ------------------------------------------------------------------------

\* C6: on an expiry that pushes, every entry that is stale (older than
\* TimeToStale seconds, with a fresher reading) has record called for it with
\* its lastTimeRead before the push, and the push is the last call of the
\* handler and the only push.
C6_SweepBeforePush ==
  Pushed
    => /\ calls[Len(calls)].op = "push"
       /\ \A k \in 1..(Len(calls) - 1) : calls[k].op # "push"
       /\ \A i \in Items :
            StaleHolds(i)
              => \E k \in 1..(Len(calls) - 1) :
                   /\ calls[k].op = "record" /\ calls[k].phase = "sweep"
                   /\ calls[k].item = i /\ calls[k].ts = lastTimeRead[i]

\* An expiry has swept an entry that was recorded before and that the
\* sampling loop did not record, and then pushed.
C6_Witness ==
  /\ \E i \in Items :
       /\ entry.lastTimeRecorded[i] # 0
       /\ StaleHolds(i)
       /\ Made("record", "sweep", i, TRUE)
       /\ ~SampleRecordCalled(i)
  /\ PushAccepted

\* ------------------------------------------------------------------------
\* C7
\* ------------------------------------------------------------------------

\* C7 (as claimed): while reads and record calls succeed, the age of the last
\* recording of an entry whose value never crosses its threshold (every entry
\* but the unsteady one) is at most TimeToStale seconds plus one timer period
\* at the end of an expiry.
C7_NoStarvationPastStale ==
  (alive /\ ticks >= 1 /\ failed \subseteq {"push"})
    => \A i \in Items \ {unsteady} :
         (now - lastTimeRecorded[i]) <= (TimeToStale + DelayBetweenReadings) * 1000

\* C7 (amended): while reads and record calls succeed, the age of the last
\* recording of every entry is at most MaxIntervalBetweenPublish seconds at
\* the end of an expiry.
C7_NoStarvationPastMaxInterval ==
  (alive /\ ticks >= 1 /\ failed \subseteq {"push"})
    => \A i \in Items :
         (now - lastTimeRecorded[i]) <= MaxIntervalBetweenPublish * 1000

\* An entry whose value does not change is older than TimeToStale seconds
\* plus a period at the end of an expiry in which its read succeeded, every
\* call having succeeded so far.
C7_Witness ==
  /\ alive
  /\ ticks >= 2
  /\ failed = {}
  /\ \E i \in Items \ {unsteady} :
       /\ ReadOk(i)
       /\ (now - lastTimeRecorded[i]) > (TimeToStale + DelayBetweenReadings) * 1000

\* ------------------------------------------------------------------------
\* C8
\* ------------------------------------------------------------------------

\* C8: an accepted push sets LastTimePublished to now and clears
\* DeferredPublish; a rejected push leaves both as they were.
C8_PushOutcome ==
  /\ PushAccepted => (LastTimePublished = now /\ ~DeferredPublish)
  /\ PushRejected
       => (LastTimePublished = entry.LastTimePublished
             /\ DeferredPublish = entry.DeferredPublish)

\* A deferred publish has been pushed and rejected.
C8_Witness ==
  /\ PushRejected
  /\ DeferredPublish
  /\ LastTimePublished # 0
  /\ LastTimePublished < now

\* ------------------------------------------------------------------------
\* C9
\* ------------------------------------------------------------------------

\* C9: lastValueRecorded and lastTimeRecorded of an entry change on an expiry
\* only if a record call for that entry succeeded (then lastValueRecorded is
\* the value read), and publish is set only by a successful record call of
\* the sampling loop or by the max-interval condition.
C9_RecordFailureLocal ==
  /\ \A i \in Items :
       (lastValueRecorded[i] # entry.lastValueRecorded[i]
          \/ lastTimeRecorded[i] # entry.lastTimeRecorded[i])
         => /\ Made("record", "sample", i, TRUE)
                 \/ Made("record", "sweep", i, TRUE)
            /\ lastValueRecorded[i] = lastValueRead[i]
  /\ publish
       => \E i \in Items :
            Made("record", "sample", i, TRUE) \/ ForceHolds(i)

\* A record call has failed on a threshold crossing, and nothing was
\* recorded or wanted to publish.
C9_Witness ==
  /\ alive
  /\ \E i \in Items :
       /\ Made("record", "sample", i, FALSE)
       /\ lastValueRecorded[i] # lastValueRead[i]
       /\ lastTimeRecorded[i] # 0
  /\ ~publish

\* ------------------------------------------------------------------------
\* C10
\* ------------------------------------------------------------------------

\* C10 (as claimed): on an expiry where the read of an entry fails, its
\* lastTimeRead, lastValueRecorded and lastTimeRecorded do not change and
\* record is not called for it, in the sampling loop or in the sweep.
C10_ReadFailureMutatesNothing ==
  \A i \in Items :
    ReadFailed(i)
      => /\ lastTimeRead[i] = entry.lastTimeRead[i]
         /\ lastValueRecorded[i] = entry.lastValueRecorded[i]
         /\ lastTimeRecorded[i] = entry.lastTimeRecorded[i]
         /\ ~SampleRecordCalled(i)
         /\ ~SweepRecordCalled(i)

\* C10 (amended): on an expiry where the read of an entry fails, its
\* lastTimeRead does not change and the sampling loop does not call record
\* for it; its lastValueRecorded and lastTimeRecorded change only if the
\* sweep of that expiry records its earlier reading, which it does exactly
\* when the expiry pushes and the entry is stale.
C10_ReadFailureSkipsSampling ==
  \A i \in Items :
    ReadFailed(i)
      => /\ lastTimeRead[i] = entry.lastTimeRead[i]
         /\ ~SampleRecordCalled(i)
         /\ (lastValueRecorded[i] # entry.lastValueRecorded[i]
               \/ lastTimeRecorded[i] # entry.lastTimeRecorded[i])
              => Made("record", "sweep", i, TRUE)
         /\ SweepRecordCalled(i) <=> (Pushed /\ StaleHolds(i))

\* The read of an entry failed and the sweep of the same expiry recorded its
\* earlier reading.
C10_Witness ==
  \E i \in Items :
    /\ ReadFailed(i)
    /\ Made("record", "sweep", i, TRUE)
    /\ lastTimeRecorded[i] = lastTimeRead[i]
    /\ lastTimeRead[i] < now

\* ------------------------------------------------------------------------
\* C11
\* ------------------------------------------------------------------------

\* publish = true is executed in the loop iteration of an entry other than i
SetByOthers(i) ==
  \E j \in Items \ {i} : Made("record", "sample", j, TRUE) \/ ForceHolds(j)

\* The handler pushes exactly when a publish is wanted or deferred and the
\* rate-limit test of the code lets it through
FlushRule ==
  Pushed <=> /\ publish \/ entry.DeferredPublish
             /\ ~((now - entry.LastTimePublished) < MinIntervalBetweenPublish)

\* C11 (as claimed): on an expiry where the read of an entry fails, the
\* entry is skipped (no threshold check, no record call in the sampling
\* loop), its loop iteration does not set publish, and the push of the
\* expiry, if any, is owed to a deferred publish or to another entry.
C11_ReadFailureNoPublishEffect ==
  \A i \in Items :
    (alive /\ ReadFailed(i))
      => /\ ~SampleRecordCalled(i)
         /\ ~ForceHolds(i)
         /\ Pushed => (entry.DeferredPublish \/ SetByOthers(i))

\* C11 (amended): on an expiry where the read of an entry fails, the
\* sampling loop does not stamp, threshold-check or record the entry, but its
\* max-interval test is still made on the earlier read, so that publish is
\* set exactly when that test holds for it or another entry sets it; every
\* other entry is sampled by the usual rule, and the handler pushes by the
\* usual rule.
C11_ReadFailureLocal ==
  \A i \in Items :
    (alive /\ ReadFailed(i))
      => /\ lastTimeRead[i] = entry.lastTimeRead[i]
         /\ lastValueRead[i] = entry.lastValueRead[i]
         /\ ~Made("thresholdCheck", "sample", i, TRUE)
         /\ ~Made("thresholdCheck", "sample", i, FALSE)
         /\ ~SampleRecordCalled(i)
         /\ publish <=> (ForceHolds(i) \/ SetByOthers(i))
         /\ FlushRule
         /\ \A j \in Items \ {i} :
              /\ ReadOk(j)
              /\ lastTimeRead[j] = now
              /\ SampleRecordCalled(j)
                   <=> (entry.lastTimeRecorded[j] = 0 \/ ThresholdHolds(j))

\* The read of an entry failed, its max-interval test alone set publish, and
\* the record was pushed.
C11_Witness ==
  /\ alive
  /\ \E i \in Items :
       /\ ReadFailed(i)
       /\ ForceHolds(i)
       /\ ~SetByOthers(i)
       /\ publish
       /\ Pushed


\* ------------------------------------------------------------------------
\* C12  The push status callback changes nothing
\* ------------------------------------------------------------------------

\* The step delivers the status of an accepted push
CallbackDelivered == pushesInFlight' < pushesInFlight

\* C12: the delivery of a push status, at any point between the expiries and
\* for any status, leaves LastTimePublished, DeferredPublish, the record and
\* the read and recorded values and times of every descriptor unchanged.
C12_CallbackChangesNothing ==
  [][CallbackDelivered =>
       UNCHANGED <<LastTimePublished, DeferredPublish, RecordRef, lastTimeRead,
                   lastTimeRecorded, lastValueRead, lastValueRecorded>>]_vars

\* The status of every accepted push has arrived and a publish is deferred
C12_Witness ==
  /\ alive
  /\ ticks >= 2
  /\ LastTimePublished # 0
  /\ pushesInFlight = 0
  /\ DeferredPublish


\* ------------------------------------------------------------------------
\* C13  Quiet expiries
\* ------------------------------------------------------------------------

\* The handler ran again, every read succeeded and returned the value read
\* before, and less than MinIntervalBetweenPublish seconds have passed since
\* the last publish
QuietTick ==
  /\ alive
  /\ ticks >= 2
  /\ \A i \in Items : ReadOk(i) /\ lastValueRead[i] = entry.lastValueRead[i]
  /\ (now - entry.LastTimePublished) < MinIntervalBetweenPublish * 1000

\* C13: a quiet expiry pushes nothing, records nothing and leaves the recorded
\* values and times, LastTimePublished and DeferredPublish as they were.
C13_QuietTickIdempotent ==
  QuietTick =>
    /\ ~Pushed
    /\ \A i \in Items : ~SampleRecordCalled(i) /\ ~SweepRecordCalled(i)
    /\ lastValueRecorded = entry.lastValueRecorded
    /\ lastTimeRecorded = entry.lastTimeRecorded
    /\ LastTimePublished = entry.LastTimePublished
    /\ DeferredPublish = entry.DeferredPublish


\* ------------------------------------------------------------------------
\* C14  The temperature scenario
\* ------------------------------------------------------------------------

\* C14: from lastTimeRecorded = 0, with the temperature readings 20.0, 20.5
\* and 23.5 on three consecutive expiries, the first expiry records 20.0, the
\* second records nothing for the temperature and leaves 20.0 as its recorded
\* value, the third records 23.5 and sets publish.
C14_TemperatureScenario ==
  /\ ticks = 1 =>
       /\ entry.lastTimeRecorded[Temperature] = 0
       /\ Made("record", "sample", Temperature, TRUE)
       /\ lastValueRecorded[Temperature] = <<20000>>
  /\ ticks = 2 =>
       /\ lastValueRead[Temperature] = <<20500>>
       /\ ~SampleRecordCalled(Temperature)
       /\ ~SweepRecordCalled(Temperature)
       /\ lastValueRecorded[Temperature] = <<20000>>
  /\ ticks = 3 =>
       /\ Made("record", "sample", Temperature, TRUE)
       /\ lastValueRecorded[Temperature] = <<23500>>
       /\ publish

\* The third expiry has appended the reading 23.5 to the record
C14_Witness ==
  /\ ticks = 3
  /\ publish
  /\ lastValueRead[Temperature] = <<23500>>
  /\ lastValueRecorded[Temperature] = <<23500>>
  /\ \E k \in 1..Len(RecordRef) :
       RecordRef[k].path = Paths(Temperature)[1] /\ RecordRef[k].value = 23500


\* ------------------------------------------------------------------------
\* C15  The session drives the timer
\* ------------------------------------------------------------------------

\* The process was ended by a call of the handler through a null pointer
KilledByCall == \E c \in made : c[2] = "killed"

\* C15: the sampling timer runs exactly when the latest started/stopped
\* session event was "started" (an event that repeats the latest one, or an
\* unsupported state, changes nothing and does not end the process), and
\* SampleTimerHandler runs only while the timer runs.
C15_SessionDrivesTimer ==
  /\ timerRunning <=> (session = "started")
  /\ ticks >= 1 => entry.timerRunning
  /\ ~alive => (startup # "done" \/ KilledByCall)

\* The session stopped after the handler had run
C15_Witness ==
  /\ alive
  /\ ticks >= 1
  /\ session = "stopped"
  /\ ~timerRunning


\* ------------------------------------------------------------------------
\* C16  The record only grows
\* ------------------------------------------------------------------------

\* The entries of r1 are the first entries of r2
IsPrefix(r1, r2) ==
  /\ Len(r1) <= Len(r2)
  /\ SubSeq(r2, 1, Len(r1)) = r1

\* C16: no step removes an entry from the record; every entry appended by a
\* record call stays in the one record of the component, across accepted and
\* rejected pushes.
C16_RecordOnlyGrows == [][IsPrefix(RecordRef, RecordRef')]_vars

\* Entries were appended after an accepted push, and the latest push was
\* rejected
C16_Witness ==
  /\ alive
  /\ LastTimePublished # 0
  /\ PushRejected
  /\ \E k \in 1..Len(RecordRef) : RecordRef[k].ts > LastTimePublished
  /\ \E k \in 1..Len(RecordRef) : RecordRef[k].ts <= LastTimePublished


\* ------------------------------------------------------------------------
\* C17  A startup failure is fatal
\* ------------------------------------------------------------------------

C18_SamplerRecordingStep ==
  \A i \in {j \in Items : HasRead(j) /\ HasThresholdCheck(j)} :
    (alive /\ ReadOk(i) /\ Made("record", "sample", i, TRUE) /\ ~SweepRecordCalled(i)) =>
      /\ lastValueRecorded[i] = lastValueRead[i]
      /\ lastTimeRecorded[i] = now
      /\ publish


\* ------------------------------------------------------------------------
\* C19  The functions of the entries
\* ------------------------------------------------------------------------

\* C19: every entry of Items has its read and thresholdCheck functions (as it
\* has record and copyValue), so the handler never calls through a null
\* pointer.
C19_NoNullCall ==
  /\ \A c \in made :
       /\ c[1] = "read" => HasRead(c[3])
       /\ c[1] = "thresholdCheck" => HasThresholdCheck(c[3])
  /\ ~KilledByCall


\* ------------------------------------------------------------------------
\* C20  A deferred publish stays pending
\* ------------------------------------------------------------------------

\* C20: an expiry that starts with DeferredPublish set leaves it set unless
\* its push is accepted, and it pushes when MinIntervalBetweenPublish seconds
\* have passed since LastTimePublished, whether or not an entry set publish.
C20_DeferredSticky ==
  (alive /\ ticks >= 1 /\ entry.DeferredPublish) =>
    /\ DeferredPublish <=> ~PushAccepted
    /\ (now - entry.LastTimePublished) >= MinIntervalBetweenPublish * 1000 => Pushed

\* A deferred publish was pushed by an expiry on which no entry set publish
C20_Witness ==
  /\ alive
  /\ entry.DeferredPublish
  /\ ~publish
  /\ (now - entry.LastTimePublished) >= MinIntervalBetweenPublish * 1000
  /\ PushAccepted
  /\ ~DeferredPublish


\* ------------------------------------------------------------------------
\* C21  Nothing to publish
\* ------------------------------------------------------------------------

\* C21: an expiry on which publish stays false and DeferredPublish is false
\* sweeps nothing, makes no record call after the sampling loop, pushes
\* nothing and leaves LastTimePublished, DeferredPublish and the recorded
\* value and time of every entry unchanged.
C21_SchedulerNoOp ==
  (alive /\ ticks >= 1 /\ ~publish /\ ~entry.DeferredPublish) =>
    /\ \A i \in Items : ~SweepRecordCalled(i)
    /\ ~Pushed
    /\ LastTimePublished = entry.LastTimePublished
    /\ ~DeferredPublish
    /\ lastValueRecorded = entry.lastValueRecorded
    /\ lastTimeRecorded = entry.lastTimeRecorded

\* Nothing was published on an expiry on which an entry was stale
C21_Witness ==
  /\ alive
  /\ ticks >= 2
  /\ ~publish
  /\ ~entry.DeferredPublish
  /\ \E i \in Items : StaleHolds(i)


\* ------------------------------------------------------------------------
\* C22  What the sweep writes
\* ------------------------------------------------------------------------

\* The sweep appended the first field of entry i with the value and the time
\* of its latest read
SweepAppended(i) ==
  /\ \E k \in 1..Len(calls) :
       /\ calls[k].op = "record" /\ calls[k].phase = "sweep" /\ calls[k].item = i
       /\ calls[k].ts = lastTimeRead[i]
  /\ \E k \in 1..Len(RecordRef) :
       /\ RecordRef[k].path = Paths(i)[1]
       /\ RecordRef[k].value = lastValueRead[i][1]
       /\ RecordRef[k].ts = lastTimeRead[i]

\* C22 (as claimed): an entry the sweep recorded was appended with the value
\* and time of its latest read, its recorded value is the value read, and
\* its lastTimeRecorded is the time of the expiry, also when its read failed
\* on that expiry.
C22_SweepStampsNow ==
  \A i \in Items :
    (alive /\ Made("record", "sweep", i, TRUE)) =>
      /\ SweepAppended(i)
      /\ lastValueRecorded[i] = lastValueRead[i]
      /\ lastTimeRecorded[i] = now

\* C22 (amended): an entry the sweep recorded was appended with the value and
\* time of its latest read, its recorded value is the value read, and its
\* lastTimeRecorded is its lastTimeRead: the time of the expiry when its read
\* succeeded on that expiry, the earlier time of its latest successful read
\* when it failed.
C22_SweepStampsLastRead ==
  \A i \in Items :
    (alive /\ Made("record", "sweep", i, TRUE)) =>
      /\ SweepAppended(i)
      /\ lastValueRecorded[i] = lastValueRead[i]
      /\ lastTimeRecorded[i] = lastTimeRead[i]
      /\ ReadOk(i) => lastTimeRecorded[i] = now
      /\ ReadFailed(i) =>
           (lastTimeRecorded[i] = entry.lastTimeRead[i] /\ lastTimeRecorded[i] < now)

\* The sweep recorded an entry whose read had failed on the expiry
C22_Witness ==
  \E i \in Items :
    /\ alive
    /\ ReadFailed(i)
    /\ Made("record", "sweep", i, TRUE)
    /\ lastTimeRecorded[i] < now


\* ------------------------------------------------------------------------
\* C23  A record call that fails part-way
\* ------------------------------------------------------------------------

\* The fields of entry i appended on the latest expiry, in the order of the
\* record
AppendedNow(i) ==
  SelectSeq(RecordRef,
            LAMBDA r : r.ts = now /\ \E k \in 1..NumFields(i) : r.path = Paths(i)[k])

\* The handler called the record function of entry i once, in the sampling
\* loop or in the sweep, after a successful read
RecordedOnce(i) ==
  /\ alive
  /\ ReadOk(i)
  /\ SampleRecordCalled(i) # SweepRecordCalled(i)

\* The record call of entry i returned an error
RecordFailed(i) ==
  Made("record", "sample", i, FALSE) \/ Made("record", "sweep", i, FALSE)

\* C23: a record call appends the fields of its value in their fixed order
\* and stops at the first field the sink rejects: the fields before it stay in
\* the record, the fields after it are not appended, the call returns the
\* error, and the recorded value of the entry is not advanced.
C23_PartialRecord ==
  \A i \in Items :
    RecordedOnce(i) =>
      /\ Len(AppendedNow(i)) <= NumFields(i)
      /\ \A k \in 1..Len(AppendedNow(i)) :
           /\ AppendedNow(i)[k].path = Paths(i)[k]
           /\ AppendedNow(i)[k].value = lastValueRead[i][k]
      /\ RecordFailed(i) <=> Len(AppendedNow(i)) < NumFields(i)
      /\ RecordFailed(i) => lastValueRecorded[i] = entry.lastValueRecorded[i]

\* The third field of the location was rejected after a change of the
\* location: two fields were appended
C23_Witness ==
  /\ RecordedOnce(Gps)
  /\ RecordFailed(Gps)
  /\ Len(AppendedNow(Gps)) = 2
  /\ lastValueRead[Gps] # lastValueRecorded[Gps]


\* ------------------------------------------------------------------------
\* C24  The light level threshold
\* ------------------------------------------------------------------------

\* The outcome of the threshold call on the values of the entry under test
ThresholdOutcome(ok) == Made("thresholdCheck", "sample", unsteady, ok)

\* C24: on any two light levels a (recorded) and b (read) the light level
\* threshold is exceeded exactly when they differ by more than 200: not at a
\* difference of 200, and at 201.
C24_LightThreshold ==
  (unsteady = Light /\ made # {}) =>
    \E a \in {lastValueRecorded[Light][1]}, b \in {lastValueRead[Light][1]} :
      /\ ThresholdOutcome(TRUE) <=> (a - b >= 201 \/ b - a >= 201)
      /\ ThresholdOutcome(FALSE) <=> (a - b <= 200 /\ b - a <= 200)

\* The threshold was applied to light levels 200 apart and was not exceeded
C24_Witness ==
  /\ unsteady = Light
  /\ lastValueRead[Light][1] - lastValueRecorded[Light][1] = 200
  /\ ThresholdOutcome(FALSE)


\* ------------------------------------------------------------------------
\* C25  The state survives the session changes
\* ------------------------------------------------------------------------

\* The step handles a session event: it is neither an expiry nor the
\* delivery of a push status
SessionEvent ==
  /\ ticks' = ticks
  /\ pushesInFlight' = pushesInFlight
  /\ <<session, timerRunning, alive>>' # <<session, timerRunning, alive>>

\* C25: a session event changes none of the read and recorded values and
\* times of the entries, LastTimePublished, DeferredPublish and the record:
\* after the session stopped and started again the next expiry starts from the
\* state the last one left.
C25_SessionKeepsState ==
  [][SessionEvent =>
       UNCHANGED <<lastValueRead, lastValueRecorded, lastTimeRead, lastTimeRecorded,
                   LastTimePublished, DeferredPublish, RecordRef>>]_vars

\* The session stopped while a publish was deferred and entries were in the
\* record
C25_Witness ==
  /\ alive
  /\ session = "stopped"
  /\ ~timerRunning
  /\ DeferredPublish
  /\ LastTimePublished # 0
  /\ RecordRef # <<>>


\* ------------------------------------------------------------------------
\* C26  The order of Items
\* ------------------------------------------------------------------------

\* C26: at the same time and with the same outcomes of the reads, the record
\* calls and the push, the handler over Items in another order makes the same
\* calls with the same results (it pushes or defers alike) and leaves the
\* same state of every entry and the same publish state; the record holds the
\* same entries, in another order.
C26_OrderIndependent ==
  \A o \in DOMAIN permuted :
    /\ permuted[o].alive = alive
    /\ alive =>
         /\ permuted[o].made = made
         /\ permuted[o].publish = publish
         /\ permuted[o].DeferredPublish = DeferredPublish
         /\ permuted[o].LastTimePublished = LastTimePublished
         /\ permuted[o].lastTimeRead = lastTimeRead
         /\ permuted[o].lastTimeRecorded = lastTimeRecorded
         /\ permuted[o].lastValueRead = lastValueRead
         /\ permuted[o].lastValueRecorded = lastValueRecorded
         /\ BagOf(permuted[o].rec) = BagOf(Appended)

\* The handler over the reversed Items pushed the same entries in another
\* order
C26_Witness ==
  /\ alive
  /\ permuted # NoOrder
  /\ PushAccepted
  /\ permuted[Reversed].rec # Appended


\* ------------------------------------------------------------------------
\* C27  One record call per entry and expiry
\* ------------------------------------------------------------------------

\* C27: on one expiry the record function of an entry is called at most
\* once: an entry recorded by the sampling loop (the first reading included)
\* is not recorded again by the sweep of the same expiry.
C27_NoDuplicateRecord ==
  \A i \in Items :
    /\ ~(SampleRecordCalled(i) /\ SweepRecordCalled(i))
    /\ Cardinality({k \in 1..Len(calls) : calls[k].op = "record" /\ calls[k].item = i}) <= 1


\* ------------------------------------------------------------------------
\* C28  The order of the timestamps
\* ------------------------------------------------------------------------

\* C28: in every state and for every entry, lastTimeRecorded <= lastTimeRead
\* <= now and LastTimePublished <= now; lastTimeRead is the time of the latest
\* expiry on which the read of the entry succeeded, and lastTimeRecorded is 0
\* or such a time (what it was, or lastTimeRead).  So now - lastTimeRecorded
\* and now - LastTimePublished are never negative.
C28_TimestampOrder ==
  /\ LastTimePublished <= now
  /\ entry.LastTimePublished <= LastTimePublished
  /\ \A i \in Items :
       /\ 0 <= lastTimeRecorded[i]
       /\ lastTimeRecorded[i] <= lastTimeRead[i]
       /\ lastTimeRead[i] <= now
       /\ lastTimeRead[i] = IF ReadOk(i) THEN now ELSE entry.lastTimeRead[i]
       /\ lastTimeRecorded[i] \in {entry.lastTimeRecorded[i], lastTimeRead[i]}
       /\ entry.lastTimeRecorded[i] <= entry.lastTimeRead[i]
       /\ entry.lastTimeRead[i] <= lastTimeRead[i]

\* An entry was recorded, read again later, and its read failed on the
\* latest expiry
C28_Witness ==
  \E i \in Items :
    /\ alive
    /\ ReadFailed(i)
    /\ 0 < lastTimeRecorded[i]
    /\ lastTimeRecorded[i] < lastTimeRead[i]
    /\ lastTimeRead[i] < now
    /\ LastTimePublished = now


\* ------------------------------------------------------------------------
\* C29  The threshold functions are symmetric
\* ------------------------------------------------------------------------

\* C29: for every entry and any two values a and b of its type, the
\* threshold function called as the sampling loop calls it, with (read,
\* recorded), returns what it returns called as it is declared, with
\* (recorded, read).
C29_ThresholdSymmetric ==
  made # {} =>
    (ThresholdOutcome(TRUE) <=>
       ThresholdFunction(unsteady, lastValueRecorded[unsteady], lastValueRead[unsteady]))

\* The location threshold was exceeded by a reading with a smaller latitude
\* than the recorded one
C29_Witness ==
  /\ unsteady = Gps
  /\ lastValueRead[Gps][1] < lastValueRecorded[Gps][1]
  /\ lastValueRead[Gps][2] = lastValueRecorded[Gps][2]
  /\ ThresholdOutcome(TRUE)


\* ------------------------------------------------------------------------
\* C30  Every entry is pushed in the end
\* ------------------------------------------------------------------------

\* The record holds an entry appended after the last accepted push
Undelivered == \E k \in 1..Len(RecordRef) : RecordRef[k].ts > LastTimePublished

\* C30: when the expiries keep coming, the reads and the record calls
\* succeed and the sink accepts the pushes from some point on, every entry
\* appended to the record is in the end part of an accepted push; after a
\* rejected push that left DeferredPublish false a later expiry pushes again
\* without a threshold being crossed.
C30_EventualDelivery == Undelivered ~> ~Undelivered

\* After a rejected push an expiry on which nothing was recorded by the
\* sampling loop and no publish was deferred pushed the record
C30_Witness ==
  /\ alive
  /\ faults >= 1
  /\ ~entry.DeferredPublish
  /\ \A i \in Items : ~SampleRecordCalled(i)
  /\ PushAccepted
  /\ RecordRef # <<>>
  /\ ~Undelivered


\* ------------------------------------------------------------------------
\* C31  The age of the recorded value
\* ------------------------------------------------------------------------

\* The handler ran to its end, read entry i and no record call for it failed
ReadAndRecorded(i) ==
  /\ alive
  /\ ReadOk(i)
  /\ ~RecordFailed(i)

\* now - it->lastTimeRecorded is within MaxIntervalBetweenPublish seconds
AgeBounded(i) == now - lastTimeRecorded[i] <= MaxIntervalBetweenPublish * 1000

PushAttempts == Cardinality({k \in 1..Len(calls) : calls[k].op = "push"})

\* The sweep recorded entry i and the push that followed was rejected
SweptBeforeRejectedPush(i) ==
  /\ alive
  /\ Made("record", "sweep", i, TRUE)
  /\ PushRejected

\* C32: when the sweep has recorded an entry and the push that follows on
\* the same expiry is rejected, the entry keeps the recorded value and the
\* recording time the sweep gave it, LastTimePublished and DeferredPublish
\* are as they were when the handler started, and the handler called the push
\* once.
C32_SweepSurvivesRejectedPush ==
  \A i \in Items :
    SweptBeforeRejectedPush(i) =>
      /\ lastValueRecorded[i] = lastValueRead[i]
      /\ lastTimeRecorded[i] = lastTimeRead[i]
      /\ lastTimeRecorded[i] > entry.lastTimeRecorded[i]
      /\ LastTimePublished = entry.LastTimePublished
      /\ DeferredPublish = entry.DeferredPublish
      /\ PushAttempts = 1

\* The sweep gave an entry a new value and a new recording time on an expiry
\* that started with a deferred publish, and the push was rejected
C32_Witness ==
  \E i \in Items :
    /\ SweptBeforeRejectedPush(i)
    /\ entry.lastTimeRecorded[i] # 0
    /\ lastValueRecorded[i] # entry.lastValueRecorded[i]
    /\ entry.DeferredPublish
    /\ DeferredPublish

====
